---- MODULE Spec2Model ----
(***************************************************************************)
(* The two Chatterbox command-line scripts of wispy:                       *)
(*   bin/chatterbox-tts.py   (first variant)                               *)
(*   bin/run-chatterbox.py   (second variant, memory-optimised runner)     *)
(* One run of main() is modelled: the process arguments, the filesystem    *)
(* below the working directory, the calls made on the external             *)
(* collaborators (ChatterboxTTS, os.makedirs, torchaudio.save), the lines  *)
(* printed and the exit status.                                            *)
(*                                                                         *)
(* Floats are held by their canonical repr ("0.5", "2.0"), so that the     *)
(* conversion float(argv[i]) is a real conversion of the argument text.    *)
(* Python's sys.argv[k] is argv[k + 1] here (sequences start at 1).        *)
(***************************************************************************)
EXTENDS Integers, Sequences, FiniteSets, TLC

VARIABLES argv, cuda_available, model_sr, fs, fs0, pc, text, output_path,
          exaggeration, cfg, model, wav, calls, out, exit_code, raised

vars == <<argv, cuda_available, model_sr, fs, fs0, pc, text, output_path,
          exaggeration, cfg, model, wav, calls, out, exit_code, raised>>

(***************************************************************************)
(* Bounds and input sets                                                   *)
(***************************************************************************)
MaxArgc == 5

TTS == "chatterbox-tts.py"
RUN == "run-chatterbox.py"
Scripts == {TTS, RUN}

Texts == {"Hello world"}
OutPaths == {"out.wav", "audio/out.wav", "audio/tts/out.wav", "notes.txt/out.wav"}
NumStrings == {"0.8", "0.3", ".5", "2", "abc"}
ModelRates == {24000, 44100}

None == "None"
NotPassed == "NotPassed"
Running == -1

\* Filesystem nodes below the working directory and their kinds.
\* "old" is an output file left by an earlier run, "wav" a complete audio
\* file written by this run, "partial" a truncated one.
DirNodes == {".", "audio", "audio/tts", "notes.txt"}
Nodes == DirNodes \cup OutPaths
Kinds == {"absent", "dir", "old", "wav", "partial"}

\* os.path.dirname on the paths of the model
dirname(p) ==
    CASE p = "out.wav"           -> ""
      [] p = "audio/out.wav"     -> "audio"
      [] p = "audio/tts/out.wav" -> "audio/tts"
      [] p = "notes.txt/out.wav" -> "notes.txt"
      [] p = "audio/tts"         -> "audio"
      [] OTHER                   -> ""

\* the directory a path lives in; an empty dirname is the working directory
ParentNode(p) == IF dirname(p) = "" THEN "." ELSE dirname(p)

exists(f, p) == f[p] # "absent"
isdir(f, p) == f[p] = "dir"

(***************************************************************************)
(* float(): canonical repr of the parsed value, or "ValueError"            *)
(***************************************************************************)
ValueError == "ValueError"

\* float() replaced by a lenient parse that falls back to the default
floatLenient(s) ==
    CASE s = "0.8" -> "0.8"
      [] s = "0.3" -> "0.3"
      [] s = ".5"  -> "0.5"
      [] s = "2"   -> "2.0"
      [] OTHER     -> "0.5"

float(s) ==
    CASE s = "0.8" -> "0.8"
      [] s = "0.3" -> "0.3"
      [] s = ".5"  -> "0.5"
      [] s = "2"   -> "2.0"
      [] OTHER     -> ValueError

(***************************************************************************)
(* Exceptions: class hierarchy and the handlers of each script             *)
(***************************************************************************)
Exc(cls, msg) == [cls |-> cls, msg |-> msg, code |-> 0]
SystemExit(code) == [cls |-> "SystemExit", msg |-> "", code |-> code]
NoExc == [cls |-> None, msg |-> "", code |-> 0]

Base(cls) ==
    CASE cls = "MemoryError"        -> "Exception"
      [] cls = "RuntimeError"       -> "Exception"
      [] cls = "ImportError"        -> "Exception"
      [] cls = "ValueError"         -> "Exception"
      [] cls = "OSError"            -> "Exception"
      [] cls = "FileExistsError"    -> "OSError"
      [] cls = "NotADirectoryError" -> "OSError"
      [] cls = "PermissionError"    -> "OSError"
      [] cls = "Exception"          -> "BaseException"
      [] cls = "SystemExit"         -> "BaseException"
      [] OTHER                      -> "BaseException"

RECURSIVE IsSubclass(_, _)
IsSubclass(c, d) ==
    IF c = d THEN TRUE
    ELSE IF c = "BaseException" THEN FALSE
    ELSE IsSubclass(Base(c), d)

Line(tag, txt) == [tag |-> tag, text |-> txt]

\* the generic clause placed first: MemoryError never reaches its own clause
ExceptClausesGenericFirst(script) ==
    IF script = RUN THEN <<"Exception", "MemoryError">> ELSE <<"Exception">>

\* a bare except in place of "except Exception"
ExceptClausesBare(script) ==
    IF script = RUN THEN <<"MemoryError", "BaseException">> ELSE <<"BaseException">>

\* the except clauses after the try block, in source order
ExceptClauses(script) ==
    IF script = RUN THEN <<"MemoryError", "Exception">> ELSE <<"Exception">>

\* a handler that prints a fixed text instead of the exception
HandlerBodyNoMessage(clause, exc) ==
    IF clause = "MemoryError"
    THEN [lines |-> <<Line("ERROR", "Out of memory. Close some applications and try again.")>>,
          code |-> 2]
    ELSE [lines |-> <<Line("ERROR", "failed")>>, code |-> 1]

\* the body of the except clause that matched
HandlerBody(clause, exc) ==
    IF clause = "MemoryError"
    THEN [lines |-> <<Line("ERROR", "Out of memory. Close some applications and try again.")>>,
          code |-> 2]
    ELSE [lines |-> <<Line("ERROR", exc.msg)>>, code |-> 1]

\* an exception that leaves main(): the interpreter's exit
Uncaught(exc) ==
    IF exc.cls = "SystemExit"
    THEN [lines |-> <<>>, code |-> exc.code]
    ELSE [lines |-> <<Line("Traceback", exc.msg)>>, code |-> 1]

\* an exception raised inside the try block
Handle(script, exc) ==
    LET clauses == ExceptClauses(script)
        matching == {i \in 1..Len(clauses) : IsSubclass(exc.cls, clauses[i])}
    IN  IF matching = {} THEN Uncaught(exc)
        ELSE HandlerBody(clauses[CHOOSE i \in matching : \A j \in matching : i <= j], exc)

(***************************************************************************)
(* os.makedirs(name, exist_ok=True)                                        *)
(***************************************************************************)
\* os.mkdir of one directory, with makedirs' exist_ok handling of the error
mkdir(f, name) ==
    IF exists(f, name)
    THEN [fs |-> f,
          exc |-> IF isdir(f, name) THEN NoExc
                  ELSE Exc("FileExistsError", "[Errno 17] File exists")]
    ELSE IF ~isdir(f, ParentNode(name))
    THEN [fs |-> f, exc |-> Exc("NotADirectoryError", "[Errno 20] Not a directory")]
    ELSE [fs |-> [f EXCEPT ![name] = "dir"], exc |-> NoExc]

RECURSIVE makedirs(_, _)
makedirs(f, name) ==
    LET head == dirname(name)
        up == IF head # "" /\ ~exists(f, head) THEN makedirs(f, head)
              ELSE [fs |-> f, exc |-> NoExc]
    IN  IF up.exc # NoExc THEN up ELSE mkdir(up.fs, name)

(***************************************************************************)
(* What the external collaborators may raise                               *)
(***************************************************************************)
ImportErrors == {Exc("ImportError", "No module named 'torch'")}
LoadErrors == {Exc("RuntimeError", "failed to load checkpoint"), Exc("MemoryError", "")}
GenerateErrors == {Exc("RuntimeError", "generation failed"), Exc("MemoryError", "")}
MakedirsErrors == {Exc("PermissionError", "[Errno 13] Permission denied")}
SaveErrors == {Exc("RuntimeError", "could not write audio"), Exc("MemoryError", "")}

(***************************************************************************)
(* Initial state: the process has been started, main() not yet entered     *)
(***************************************************************************)
RECURSIVE Argvs(_)
Argvs(n) ==
    IF n = 1 THEN {<<s>> : s \in Scripts}
    ELSE LET pos == IF n = 2 THEN Texts ELSE IF n = 3 THEN OutPaths ELSE NumStrings
         IN  {Append(a, s) : a \in Argvs(n - 1), s \in pos}

AllArgvs == UNION {Argvs(n) : n \in 1..MaxArgc}

\* a consistent tree: "notes.txt" is a regular file, a node exists only in
\* an existing directory, and only the requested output may pre-exist
InitialFs(a) ==
    {f \in [Nodes -> {"absent", "dir", "old"}] :
        /\ f["."] = "dir"
        /\ f["notes.txt"] = "old"
        /\ f["audio"] \in {"absent", "dir"}
        /\ f["audio/tts"] \in {"absent", "dir"}
        /\ \A p \in Nodes \ {"."} : exists(f, p) => isdir(f, ParentNode(p))
        /\ \A p \in OutPaths :
              /\ f[p] \in {"absent", "old"}
              /\ (Len(a) < 3 \/ p # a[3]) => f[p] = "absent"}

Init ==
    /\ argv \in AllArgvs
    /\ cuda_available \in BOOLEAN
    /\ model_sr \in ModelRates
    /\ fs \in InitialFs(argv)
    /\ fs0 = fs
    /\ pc = "main"
    /\ text = None
    /\ output_path = None
    /\ exaggeration = None
    /\ cfg = None
    /\ model = None
    /\ wav = None
    /\ calls = <<>>
    /\ out = <<>>
    /\ exit_code = Running
    /\ raised = [stage |-> None, exc |-> NoExc]

script == argv[1]

(***************************************************************************)
(* Process exit and exception propagation                                  *)
(***************************************************************************)
Terminate(lines, code) ==
    /\ out' = out \o lines
    /\ exit_code' = code
    /\ pc' = "exited"

\* a stage inside the try block raises exc
RaiseInTry(stage, exc) ==
    /\ Terminate(Handle(script, exc).lines, Handle(script, exc).code)
    /\ raised' = [stage |-> stage, exc |-> exc]

\* sys.exit(code) inside the try block: SystemExit travels past the handlers
ExitInTry(lines, code) ==
    Terminate(lines \o Handle(script, SystemExit(code)).lines,
              Handle(script, SystemExit(code)).code)

(***************************************************************************)
(* main(): argument check and parsing                                      *)
(***************************************************************************)
\* the argument check off by one
TooFewArgsOffByOne(a) == Len(a) < 2

TooFewArgs(a) == Len(a) < 3

UsageLine(s) ==
    IF s = TTS
    THEN Line("Usage", "python chatterbox-tts.py \"text\" output.wav [exaggeration] [cfg]")
    ELSE Line("Usage", "python run-chatterbox.py <text> <output.wav> [exaggeration]")

Main ==
    /\ pc = "main"
    /\ IF TooFewArgs(argv)
       THEN Terminate(<<UsageLine(script)>>, 1)
       ELSE /\ pc' = "parse"
            /\ UNCHANGED <<out, exit_code>>
    /\ UNCHANGED <<argv, cuda_available, model_sr, fs, fs0, text, output_path,
                   exaggeration, cfg, model, wav, calls, raised>>

\* float(sys.argv[i]) if len(sys.argv) > i else 0.5
OptFloat(a, i) == IF Len(a) > i THEN float(a[i + 1]) ELSE "0.5"

\* the cfg local: only the first variant reads sys.argv[4]
ParseCfg(s, a) == IF s = TTS THEN OptFloat(a, 4) ELSE None

ParseArgs ==
    /\ pc = "parse"
    /\ text' = argv[2]
    /\ output_path' = argv[3]
    /\ LET e == OptFloat(argv, 3)
           c == ParseCfg(script, argv)
           err == Exc("ValueError", "could not convert string to float")
       IN  IF e = ValueError \/ c = ValueError
           THEN /\ exaggeration' = IF e = ValueError THEN None ELSE e
                /\ cfg' = None
                /\ Terminate(Uncaught(err).lines, Uncaught(err).code)
                /\ raised' = [stage |-> "parse", exc |-> err]
           ELSE /\ exaggeration' = e
                /\ cfg' = c
                /\ pc' = "import_torch"
                /\ out' = out \o (IF script = TTS
                                  THEN <<Line("INFO", "Generating speech..."),
                                         Line("INFO", "Text"),
                                         Line("INFO", "Exaggeration, CFG")>>
                                  ELSE <<Line("INFO", "Text"), Line("INFO", "Output")>>)
                /\ UNCHANGED <<exit_code, raised>>
    /\ UNCHANGED <<argv, cuda_available, model_sr, fs, fs0, model, wav, calls>>

(***************************************************************************)
(* The try block: import, load, generate, release, write, report           *)
(***************************************************************************)
ImportTorch ==
    /\ pc = "import_torch"
    /\ \/ /\ pc' = "load"
          /\ out' = out \o (IF script = RUN
                            THEN <<Line("INFO", "Loading model (this may take a moment)...")>>
                            ELSE <<>>)
          /\ UNCHANGED <<exit_code, raised>>
       \/ \E e \in ImportErrors : RaiseInTry("import_torch", e)
    /\ UNCHANGED <<argv, cuda_available, model_sr, fs, fs0, text, output_path,
                   exaggeration, cfg, model, wav, calls>>

\* device detection in both variants
DeviceAuto(s, cuda) == IF cuda THEN "cuda" ELSE "cpu"

\* the device requested from the model factory
Device(s, cuda) == IF s = TTS THEN (IF cuda THEN "cuda" ELSE "cpu") ELSE "cpu"

LoadModel ==
    /\ pc = "load"
    /\ calls' = Append(calls, [fn |-> "from_pretrained",
                               device |-> Device(script, cuda_available),
                               held |-> model # None])
    /\ \/ /\ model' = "model"
          /\ pc' = "generate"
          /\ out' = out \o (IF script = TTS
                            THEN <<Line("INFO", "Using device"), Line("INFO", "Loading model...")>>
                            ELSE <<Line("INFO", "Model loaded, generating audio...")>>)
          /\ UNCHANGED <<exit_code, raised>>
       \/ /\ \E e \in LoadErrors :
                /\ Terminate((IF script = TTS
                              THEN <<Line("INFO", "Using device"), Line("INFO", "Loading model...")>>
                              ELSE <<>>) \o Handle(script, e).lines,
                             Handle(script, e).code)
                /\ raised' = [stage |-> "load", exc |-> e]
          /\ UNCHANGED model
    /\ UNCHANGED <<argv, cuda_available, model_sr, fs, fs0, text, output_path,
                   exaggeration, cfg, wav>>

\* the cfg_weight keyword left out of the call
CfgWeightDropped(s, c) == NotPassed

\* the cfg_weight keyword of model.generate
CfgWeight(s, c) == IF s = TTS THEN c ELSE NotPassed

\* the model kept until the end of the run
AfterGenerateNoRelease(s) == "import_torchaudio"

\* where control goes when model.generate has returned
AfterGenerate(s) == IF s = RUN THEN "release" ELSE "import_torchaudio"

Generate ==
    /\ pc = "generate"
    /\ calls' = Append(calls, [fn |-> "generate",
                               text |-> text,
                               exaggeration |-> exaggeration,
                               cfg_weight |-> CfgWeight(script, cfg),
                               held |-> model # None])
    /\ LET pre == IF script = TTS THEN <<Line("INFO", "Generating audio...")>> ELSE <<>>
       IN  \/ /\ wav' = "wav"
              /\ pc' = AfterGenerate(script)
              /\ out' = out \o pre
              /\ UNCHANGED <<exit_code, raised>>
           \/ /\ \E e \in GenerateErrors :
                    /\ Terminate(pre \o Handle(script, e).lines, Handle(script, e).code)
                    /\ raised' = [stage |-> "generate", exc |-> e]
              /\ UNCHANGED wav
    /\ UNCHANGED <<argv, cuda_available, model_sr, fs, fs0, text, output_path,
                   exaggeration, cfg, model>>

\* del model; gc.collect()  (second variant only)
ReleaseModel ==
    /\ pc = "release"
    /\ model' = None
    /\ pc' = "import_torchaudio"
    /\ UNCHANGED <<argv, cuda_available, model_sr, fs, fs0, text, output_path,
                   exaggeration, cfg, wav, calls, out, exit_code, raised>>

ImportTorchaudio ==
    /\ pc = "import_torchaudio"
    /\ \/ /\ pc' = "makedirs"
          /\ UNCHANGED <<out, exit_code, raised>>
       \/ \E e \in ImportErrors : RaiseInTry("import_torchaudio", e)
    /\ UNCHANGED <<argv, cuda_available, model_sr, fs, fs0, text, output_path,
                   exaggeration, cfg, model, wav, calls>>

\* whether the script calls os.makedirs at all
CallsMakedirs(s, f, p) ==
    IF s = TTS THEN dirname(p) # "" /\ ~exists(f, dirname(p)) ELSE TRUE

\* the directory handed to os.makedirs
MakedirsArg(s, p) == IF s = TTS THEN dirname(p) ELSE ParentNode(p)

EnsureDir ==
    /\ pc = "makedirs"
    /\ IF CallsMakedirs(script, fs, output_path)
       THEN LET name == MakedirsArg(script, output_path)
                r == makedirs(fs, name)
            IN  /\ calls' = Append(calls, [fn |-> "makedirs", path |-> name,
                                           held |-> model # None])
                /\ \/ /\ r.exc = NoExc
                      /\ fs' = r.fs
                      /\ pc' = "save"
                      /\ UNCHANGED <<out, exit_code, raised>>
                   \/ /\ r.exc # NoExc
                      /\ RaiseInTry("makedirs", r.exc)
                      /\ UNCHANGED fs
                   \/ /\ r.fs # fs
                      /\ \E e \in MakedirsErrors : RaiseInTry("makedirs", e)
                      /\ UNCHANGED fs
       ELSE /\ pc' = "save"
            /\ UNCHANGED <<fs, calls, out, exit_code, raised>>
    /\ UNCHANGED <<argv, cuda_available, model_sr, fs0, text, output_path,
                   exaggeration, cfg, model, wav>>

\* the sample rate handed to torchaudio.save
SaveRate(s, sr) == IF s = TTS THEN sr ELSE 24000

\* torchaudio.save can only write into an existing directory
CanWrite(f, p) == isdir(f, ParentNode(p)) /\ ~isdir(f, p)

SaveCall(result) ==
    [fn |-> "save", path |-> output_path, sr |-> SaveRate(script, model_sr),
     held |-> model # None, result |-> result]

Save ==
    /\ pc = "save"
    /\ \/ /\ CanWrite(fs, output_path)
          /\ calls' = Append(calls, SaveCall("written"))
          /\ fs' = [fs EXCEPT ![output_path] = "wav"]
          /\ pc' = "report"
          /\ UNCHANGED <<out, exit_code, raised>>
       \/ /\ CanWrite(fs, output_path)
          /\ calls' = Append(calls, SaveCall("silent"))
          /\ pc' = "report"
          /\ UNCHANGED <<fs, out, exit_code, raised>>
       \/ /\ CanWrite(fs, output_path)
          /\ calls' = Append(calls, SaveCall("raised"))
          /\ \E e \in SaveErrors : RaiseInTry("save", e)
          /\ \/ UNCHANGED fs
             \/ fs' = [fs EXCEPT ![output_path] = "partial"]
       \/ /\ ~CanWrite(fs, output_path)
          /\ calls' = Append(calls, SaveCall("raised"))
          /\ RaiseInTry("save", Exc("NotADirectoryError", "[Errno 20] Not a directory"))
          /\ UNCHANGED fs
    /\ UNCHANGED <<argv, cuda_available, model_sr, fs0, text, output_path,
                   exaggeration, cfg, model, wav>>

\* os.path.isdir in place of os.path.exists
FileCreatedIsDir(f, p) == isdir(f, p)

\* the second variant's check after saving
FileCreated(f, p) == exists(f, p)

Report ==
    /\ pc = "report"
    /\ IF script = TTS
       THEN Terminate(<<Line("SUCCESS", output_path), Line("INFO", "Sample rate")>>, 0)
       ELSE IF FileCreated(fs, output_path)
            THEN ExitInTry(<<Line("SUCCESS", output_path)>>, 0)
            ELSE ExitInTry(<<Line("ERROR", "File not created")>>, 1)
    /\ UNCHANGED <<argv, cuda_available, model_sr, fs, fs0, text, output_path,
                   exaggeration, cfg, model, wav, calls, raised>>

Next ==
    \/ Main
    \/ ParseArgs
    \/ ImportTorch
    \/ LoadModel
    \/ Generate
    \/ ReleaseModel
    \/ ImportTorchaudio
    \/ EnsureDir
    \/ Save
    \/ Report

Spec == Init /\ [][Next]_vars

TypeOK ==
    /\ argv \in AllArgvs
    /\ pc \in {"main", "parse", "import_torch", "load", "generate", "release",
               "import_torchaudio", "makedirs", "save", "report", "exited"}
    /\ fs \in [Nodes -> Kinds]
    /\ exit_code \in {Running, 0, 1, 2}
    /\ (pc = "exited") = (exit_code # Running)

(***************************************************************************)
(* Vocabulary of the properties                                            *)
(***************************************************************************)
Exited == pc = "exited"
CallsOf(fn) == {i \in 1..Len(calls) : calls[i].fn = fn}
LastLine == out[Len(out)]
HasErrorLine == \E i \in 1..Len(out) : out[i].tag = "ERROR"
TryStages == {"import_torch", "load", "generate", "import_torchaudio", "makedirs", "save"}
OutOfMemoryIn(s) == s = RUN /\ raised.exc.cls = "MemoryError"
SaveReturned == \E i \in CallsOf("save") : calls[i].result # "raised"
SaveSilent == \E i \in CallsOf("save") : calls[i].result = "silent"

\* the value the generation call is expected to receive for sys.argv[i]
Expected(i) == IF Len(argv) > i THEN float(argv[i + 1]) ELSE "0.5"

\* argument text that is not a number
Malformed(s) == s = "abc"
MalformedNumeric ==
    \/ Len(argv) > 3 /\ Malformed(argv[4])
    \/ script = TTS /\ Len(argv) > 4 /\ Malformed(argv[5])

(***************************************************************************)
(* C1: with fewer than 2 positional arguments both scripts print the usage *)
(* line and exit with status 1, and no model load, generation, directory   *)
(* creation or file write is attempted.                                    *)
(***************************************************************************)
C1_UsageOnTooFewArgs ==
    Len(argv) < 3 =>
        /\ calls = <<>>
        /\ fs = fs0
        /\ pc \in {"main", "exited"}
        /\ Exited => exit_code = 1 /\ out = <<UsageLine(script)>>

C1_Witness == Len(argv) = 2 /\ Exited /\ exit_code = 1

(***************************************************************************)
(* C2 as stated: if model.generate raises, both scripts exit with status 1 *)
(* and print an error line with the exception message, and save is never   *)
(* reached, so that no output file is created or partially written.        *)
(***************************************************************************)
C2_Original ==
    raised.stage = "generate" =>
        /\ exit_code = 1
        /\ LastLine = Line("ERROR", raised.exc.msg)
        /\ CallsOf("save") = {}
        /\ fs[output_path] = fs0[output_path]

(***************************************************************************)
(* C2 amended: if model.generate raises, save is never reached and the     *)
(* output file is untouched; the script prints an ERROR line with the      *)
(* exception message and exits 1, except that a MemoryError in the second  *)
(* variant prints the fixed out-of-memory ERROR line and exits 2.          *)
(***************************************************************************)
C2_GenerateFailure ==
    raised.stage = "generate" =>
        /\ CallsOf("save") = {}
        /\ fs[output_path] = fs0[output_path]
        /\ LastLine.tag = "ERROR"
        /\ IF OutOfMemoryIn(script)
           THEN exit_code = 2
           ELSE exit_code = 1 /\ LastLine.text = raised.exc.msg

C2_Witness ==
    /\ raised.stage = "generate"
    /\ raised.exc.cls = "RuntimeError"
    /\ exit_code = 1
    /\ fs0[output_path] = "old"

(***************************************************************************)
(* C3: an exception raised by any stage of the try block (load, generate,  *)
(* makedirs, save, and the imports) is caught, an ERROR line is printed    *)
(* and the exit status is 1, except 2 for MemoryError in the second        *)
(* variant; the first variant never exits 2 and no failed run exits 0.     *)
(***************************************************************************)
C3_CatchAll ==
    /\ raised.stage \in TryStages =>
          /\ Exited
          /\ LastLine.tag = "ERROR"
          /\ exit_code = IF OutOfMemoryIn(script) THEN 2 ELSE 1
    /\ script = TTS => exit_code # 2
    /\ raised.stage # None => exit_code # 0

C3_Witness ==
    /\ script = RUN
    /\ raised.stage = "save"
    /\ raised.exc.cls = "MemoryError"
    /\ exit_code = 2

(***************************************************************************)
(* C4: with no optional parameter, when no stage raised and save wrote     *)
(* the file it was asked to write, the run ends with a complete audio      *)
(* file at the output path and exit status 0, in both scripts.             *)
(***************************************************************************)
C4_SuccessfulRun ==
    (Exited /\ Len(argv) = 3 /\ raised.stage = None /\ ~SaveSilent) =>
        /\ exit_code = 0
        /\ fs[output_path] = "wav"
        /\ LastLine.tag \in {"SUCCESS", "INFO"}

C4_Witness ==
    /\ Exited
    /\ script = RUN
    /\ Len(argv) = 3
    /\ exit_code = 0
    /\ fs[output_path] = "wav"
    /\ fs0[ParentNode(output_path)] = "absent"

(***************************************************************************)
(* C5 as stated: in both scripts the generation call receives, as          *)
(* exaggeration and as cfg_weight, the parsed argument when it is          *)
(* supplied and 0.5 when it is omitted.  A call that passes no cfg_weight  *)
(* is read in the claim's favour, as generating with the default 0.5.      *)
(***************************************************************************)
C5_Original ==
    \A i \in CallsOf("generate") :
        /\ calls[i].exaggeration = Expected(3)
        /\ (IF calls[i].cfg_weight = NotPassed THEN "0.5" ELSE calls[i].cfg_weight)
              = Expected(4)

(***************************************************************************)
(* C5 amended: exaggeration is passed as parsed, 0.5 when omitted, in both *)
(* scripts; cfg_weight is passed as parsed, 0.5 when omitted, by the first *)
(* variant only: the second variant passes no cfg_weight at all and        *)
(* ignores a fourth positional argument.                                   *)
(***************************************************************************)
C5_TuningParameters ==
    \A i \in CallsOf("generate") :
        /\ calls[i].exaggeration = Expected(3)
        /\ calls[i].text = argv[2]
        /\ script = TTS => calls[i].cfg_weight = Expected(4)
        /\ script = RUN => calls[i].cfg_weight = NotPassed

C5_Witness ==
    /\ script = TTS
    /\ Len(argv) = 4
    /\ argv[4] = "0.8"
    /\ \E i \in CallsOf("generate") :
          calls[i].exaggeration = "0.8" /\ calls[i].cfg_weight = "0.5"

(***************************************************************************)
(* C6: whenever save is about to be invoked, the parent directory of the   *)
(* output path exists (as a directory), in both scripts.                   *)
(***************************************************************************)
C6_ParentDirAtSave ==
    pc = "save" => isdir(fs, ParentNode(output_path))

(***************************************************************************)
(* C7: the second variant always loads on "cpu" and always saves at 24000; *)
(* the first variant loads on "cuda" exactly when it is available and      *)
(* saves at the rate the model reports.                                    *)
(***************************************************************************)
C7_DeviceAndRate ==
    /\ \A i \in CallsOf("from_pretrained") :
          /\ script = RUN => calls[i].device = "cpu"
          /\ script = TTS => calls[i].device = (IF cuda_available THEN "cuda" ELSE "cpu")
    /\ \A i \in CallsOf("save") :
          /\ script = RUN => calls[i].sr = 24000
          /\ script = TTS => calls[i].sr = model_sr

C7_Witness ==
    /\ script = RUN
    /\ cuda_available
    /\ model_sr = 44100
    /\ \E i \in CallsOf("save") : calls[i].sr = 24000
    /\ \E i \in CallsOf("from_pretrained") : calls[i].device = "cpu"

(***************************************************************************)
(* C8: a malformed exaggeration (or cfg, in the first variant) ends the    *)
(* run with an uncaught error: non-zero status, no ERROR line, and no      *)
(* model load, generation or file write.                                   *)
(***************************************************************************)
C8_MalformedNumberUncaught ==
    MalformedNumeric =>
        /\ calls = <<>>
        /\ fs = fs0
        /\ ~HasErrorLine
        /\ pc \in {"main", "parse", "exited"}
        /\ Exited => exit_code = 1 /\ LastLine.tag = "Traceback"

C8_Witness ==
    /\ script = TTS
    /\ Len(argv) = 5
    /\ ~Malformed(argv[4])
    /\ Malformed(argv[5])
    /\ Exited
    /\ exit_code = 1

(***************************************************************************)
(* C9: the second variant exits 0 only if save returned and the output     *)
(* path exists then; if save returned and the file does not exist it       *)
(* prints "File not created" and exits 1; when the file exists the exit    *)
(* status is 0 (sys.exit(0) is not turned into 1 by the handlers).         *)
(***************************************************************************)
C9_SuccessCheckedAfterSave ==
    script = RUN =>
        /\ exit_code = 0 =>
              /\ SaveReturned
              /\ raised.stage = None
              /\ exists(fs, output_path)
              /\ LastLine.tag = "SUCCESS"
        /\ (Exited /\ SaveReturned /\ ~exists(fs, output_path)) =>
              /\ exit_code = 1
              /\ LastLine = Line("ERROR", "File not created")
        /\ (Exited /\ SaveReturned /\ exists(fs, output_path)) => exit_code = 0

C9_Witness ==
    /\ script = RUN
    /\ Exited
    /\ SaveReturned
    /\ exit_code = 0

(***************************************************************************)
(* C10: in the second variant the model handle is held only from load to   *)
(* the end of generation: it is dropped before directory creation and      *)
(* save, and save runs only after load and generate have both returned.    *)
(***************************************************************************)
C10_ModelReleasedBeforeSave ==
    script = RUN =>
        /\ model # None => pc \in {"generate", "release", "exited"}
        /\ pc \in {"import_torchaudio", "makedirs", "save", "report"} => model = None
        /\ \A i \in CallsOf("makedirs") \cup CallsOf("save") : ~calls[i].held
        /\ \A i \in CallsOf("generate") : calls[i].held
        /\ \A i \in CallsOf("save") :
              /\ wav # None
              /\ raised.stage \notin {"import_torch", "load", "generate"}
              /\ \E j \in CallsOf("from_pretrained") :
                    \E k \in CallsOf("generate") : j < k /\ k < i

C10_Witness ==
    /\ script = RUN
    /\ \E i \in CallsOf("save") : ~calls[i].held /\ calls[i].result = "written"

====
